---- MODULE Spec2Model ----
(***************************************************************************)
(* Model of image_processing.c: the driver main(), the PPM codec           *)
(* (readPPM / writePPM) and the two 3x3 filters applyBlur and              *)
(* applyEdgeDetection with their OpenMP parallel-for regions.              *)
(*                                                                         *)
(* TLC's integers are 32-bit signed, the width of the C int the filters    *)
(* accumulate in; TLC reports an overflow as an error instead of wrapping. *)
(***************************************************************************)
EXTENDS Integers, Sequences, FiniteSets, TLC

\* ------------------------------------------------------------- bounds
MaxW == 4
MaxH == 3
MaxThreads == 2

\* ------------------------------------------------- program constants
MAX_COLOR == 255
FormatSize == 3
INT_MAX == 2147483647
SIGSEGV == 139

VARIABLES
    argc,         \* main's argc
    argv3,        \* argv[3], a string as a tuple of characters
    file,         \* the input file argv[1] as readPPM sees it
    pc,           \* position of the driver
    status,       \* exit status of the process, -1 while it runs
    img,          \* main's Image: width, height, data
    leaked,       \* the first decode's buffer, never freed (line 46 drops the pointer)
    filter_type,  \* main's filter_type
    use_openmp,   \* the use_openmp argument of the current / next filter call
    temp,         \* the filter's scratch buffer
    written,      \* per cell of temp: how many times the loop stored into it
    team,         \* size of the thread team of the latest parallel-for region
    next_iter,    \* next unassigned iteration of the collapsed, dynamically scheduled loop
    thr,          \* per thread: its place in the parallel-for region
    num_threads,  \* main's num_threads
    out,          \* the output file argv[2]
    hist          \* the driver's completed stages, in order

vars == <<argc, argv3, file, pc, status, img, leaked, filter_type, use_openmp,
          temp, written, team, next_iter, thr, num_threads, out, hist>>

\* ------------------------------------------------------ data helpers
NoData == [i \in {} |-> 0]
NoFile == [written |-> FALSE]
Threads == 1..MaxThreads

Cells(w, h) == 0..(3 * w * h - 1)

\* index of channel c of pixel (x, y) in a buffer of width w
Idx(w, x, y, c) == 3 * (y * w + x) + c

\* the 9 (dy, dx) offsets in the order the two inner loops visit them
Neighbours == [n \in 1..9 |-> <<((n - 1) \div 3) - 1, ((n - 1) % 3) - 1>>]

\* a kernel whose weights do not cancel: one weight mistyped
GxMistyped == <<<<-1, 0, 1>>, <<-2, 0, 2>>, <<-1, 0, 2>>>>

Gx == <<<<-1, 0, 1>>, <<-2, 0, 2>>, <<-1, 0, 1>>>>
Gy == <<<<-1, -2, -1>>, <<0, 0, 0>>, <<1, 2, 1>>>>

\* int -> unsigned char
ToUChar(v) == v % 256

Fmin(a, b) == IF a < b THEN a ELSE b

\* the largest r with r * r <= n that adds to r only bits b and below
RECURSIVE RootBits(_, _, _)
RootBits(n, r, b) ==
    IF b < 0 THEN r
    ELSE LET c == r + 2 ^ b
         IN  IF c <= n \div c THEN RootBits(n, c, b - 1) ELSE RootBits(n, r, b - 1)

\* sqrt() of a non-negative int, as far as the later conversion to an
\* integer type can see it: its integer part (below 2^16 for every int)
SqrtFloor(n) == RootBits(n, 0, 15)

\* atoi: the decimal value of the leading digits, 0 when there are none
DigitVal == [c \in {"0", "1", "2", "3", "4", "5", "6", "7", "8", "9"} |->
                CASE c = "0" -> 0 [] c = "1" -> 1 [] c = "2" -> 2 [] c = "3" -> 3
                  [] c = "4" -> 4 [] c = "5" -> 5 [] c = "6" -> 6 [] c = "7" -> 7
                  [] c = "8" -> 8 [] c = "9" -> 9]

RECURSIVE AtoiFrom(_, _, _)
AtoiFrom(s, i, acc) ==
    IF i > Len(s) \/ s[i] \notin DOMAIN DigitVal THEN acc
    ELSE AtoiFrom(s, i + 1, 10 * acc + DigitVal[s[i]])

atoi(s) == AtoiFrom(s, 1, 0)

\* ------------------------------------------------ the pixel kernels
\* applyBlur, lines 123-134: the sum of channel c over the 3x3 neighbourhood
\* of (x, y), visiting the offsets from the n-th on
RECURSIVE BlurSum(_, _, _, _, _, _)
BlurSum(data, w, x, y, c, n) ==
    IF n > Len(Neighbours) THEN 0
    ELSE LET dy == Neighbours[n][1]
             dx == Neighbours[n][2]
             idx == 3 * ((y + dy) * w + (x + dx))
         IN  data[idx + c] + BlurSum(data, w, x, y, c, n + 1)

\* the value of count after the inner loops: one increment per offset
BlurCount == Len(Neighbours)

\* the quotient rounded to nearest instead of truncated
BlurStoreRounded(data, w, x, y, c) ==
    ToUChar((BlurSum(data, w, x, y, c, 1) + 4) \div BlurCount)

\* applyBlur, lines 136-139: the byte stored for channel c of pixel (x, y)
BlurStore(data, w, x, y, c) == ToUChar(BlurSum(data, w, x, y, c, 1) \div BlurCount)

\* applyEdgeDetection, lines 158-175: sum of weight * sample of channel c
RECURSIVE EdgeSum(_, _, _, _, _, _, _)
EdgeSum(data, w, x, y, c, weight, n) ==
    IF n > Len(Neighbours) THEN 0
    ELSE LET dy == Neighbours[n][1]
             dx == Neighbours[n][2]
             idx == 3 * ((y + dy) * w + (x + dx))
         IN  data[idx + c] * weight[dy + 2][dx + 2]
               + EdgeSum(data, w, x, y, c, weight, n + 1)

\* the magnitude narrowed to 8 bits without the clamp
EdgeMagnitudeWrapped(sx, sy) ==
    CHOOSE v \in {SqrtFloor(m) % 256 : m \in {sx * sx + sy * sy}} : TRUE

\* applyEdgeDetection, lines 178-180: fmin(sqrt(sx*sx + sy*sy), 255) converted
\* to unsigned char; the conversion drops the fraction of a value in [0, 255].
\* m is the int argument of sqrt, computed once
EdgeMagnitude(sx, sy) ==
    CHOOSE v \in {Fmin(SqrtFloor(m), 255) : m \in {sx * sx + sy * sy}} : TRUE

EdgeStore(data, w, x, y, c) ==
    EdgeMagnitude(EdgeSum(data, w, x, y, c, Gx, 1), EdgeSum(data, w, x, y, c, Gy, 1))

\* ------------------------------------------- the collapsed loop nest
\* number of iterations of "for y in 1..h-2, for x in 1..w-2", collapse(2)
Iterations(w, h) == IF w > 2 /\ h > 2 THEN (h - 2) * (w - 2) ELSE 0

\* the (x, y) of iteration k of the collapsed loop
IterX(w, k) == 1 + (k % (w - 2))
IterY(w, k) == 1 + (k \div (w - 2))

\* ------------------------------------------------------------ inputs
P6 == <<"P", "6">>

\* first header token of the input file: the expected magic, another magic
\* that fits format[3], and one that does not fit
Formats == {P6, <<"P", "3">>, <<"P", "6", "X">>}
MaxVals == {MAX_COLOR, 65535}
Colours == {<<0, 0, 0>>, <<255, 255, 255>>, <<10, 200, 77>>}
Masks == 1..5

\* which pixels of a test image carry the first colour
Mask(m, x, y) ==
    CASE m = 1 -> FALSE
      [] m = 2 -> x = 0
      [] m = 3 -> y = 0
      [] m = 4 -> x = 1 /\ y = 1
      [] m = 5 -> (x + y) % 2 = 0

\* the 3*w*h samples of a w x h image, row-major, interleaved R, G, B
Pixels(w, h, a, b, m) ==
    [i \in Cells(w, h) |->
        LET p == i \div 3
            c == i % 3
        IN  IF Mask(m, p % w, p \div w) THEN a[c + 1] ELSE b[c + 1]]

ImagesOf(firsts, seconds, masks) ==
    {[w |-> w, h |-> h, pix |-> Pixels(w, h, a, b, m)] :
        w \in 1..MaxW, h \in 1..MaxH, a \in firsts, b \in seconds, m \in masks}

Images == ImagesOf(Colours, Colours, Masks)

MissingFile == [exists |-> FALSE, format |-> <<>>, maxColor |-> 0,
                w |-> 0, h |-> 0, pix |-> NoData]

HeaderOk(f) == f.format = P6 /\ f.maxColor = MAX_COLOR

\* the input files over a set of images: a missing one, every image under a
\* good header, and every bad header over the 1x1 images
ImagesFor(images, fm, mc) ==
    {j \in images : (fm = P6 /\ mc = MAX_COLOR) \/ (j.w = 1 /\ j.h = 1)}

FilesOf(images) ==
    {MissingFile} \cup
    UNION {{[exists |-> TRUE, format |-> fm, maxColor |-> mc,
             w |-> i.w, h |-> i.h, pix |-> i.pix] : i \in ImagesFor(images, fm, mc)} :
           fm \in Formats, mc \in MaxVals}

Files == FilesOf(Images)

\* the state when main is entered, the input file being one of files
InitWith(files) ==
    /\ argc \in {3, 4}
    /\ argv3 \in {<<"1">>, <<"2">>, <<"1", "0">>}
    /\ file \in files
    /\ pc = "main"
    /\ status = -1
    /\ img = [width |-> 0, height |-> 0, data |-> NoData]
    /\ leaked = NoData
    /\ filter_type = 0
    /\ use_openmp = 0
    /\ temp = NoData
    /\ written = NoData
    /\ team = 0
    /\ next_iter = 0
    /\ thr = [t \in Threads |-> [st |-> "out", k |-> 0]]
    /\ num_threads = 0
    /\ out = NoFile
    /\ hist = <<>>

Init == InitWith(Files)

\* the images of every size with a white first column on black: how a run is
\* scheduled depends on the size of the image, not on its samples
StripeImages == ImagesOf({<<255, 255, 255>>}, {<<0, 0, 0>>}, {2})

StripeInit == InitWith(FilesOf(StripeImages))

\* ------------------------------------------------------------ driver
\* exit(s) / return s from main
Exit(s) == pc' = "exited" /\ status' = s

\* main, lines 21-25
Main ==
    /\ pc = "main"
    /\ IF argc # 4 THEN Exit(1) ELSE pc' = "read" /\ UNCHANGED status
    /\ UNCHANGED <<argc, argv3, file, img, leaked, filter_type, use_openmp, temp,
                   written, team, next_iter, thr, num_threads, out, hist>>

\* what fscanf("%s") into char format[3] can lead to when the token and its
\* terminator do not fit: the bytes past the array are overwritten; strcmp
\* still sees a token other than "P6" and the process exits with 1, or the
\* overwritten stack makes the process die on a signal
OverflowOutcomes == {1, SIGSEGV}

\* readPPM, lines 75-100, as called from main line 27 (then line 28) and line 46
ReadPPM ==
    /\ pc = "read"
    /\ IF ~file.exists
         THEN Exit(1) /\ UNCHANGED <<img, leaked, filter_type, hist>>
       ELSE IF Len(file.format) + 1 > FormatSize
         THEN /\ \E s \in OverflowOutcomes : Exit(s)
              /\ UNCHANGED <<img, leaked, filter_type, hist>>
       ELSE IF file.format # P6 \/ file.maxColor # MAX_COLOR
         THEN Exit(1) /\ UNCHANGED <<img, leaked, filter_type, hist>>
       ELSE /\ img' = [width |-> file.w, height |-> file.h, data |-> file.pix]
            /\ leaked' = img.data
            /\ filter_type' = IF use_openmp = 0 THEN atoi(argv3) ELSE filter_type
            /\ hist' = Append(hist, "decode")
            /\ pc' = "filter"
            /\ UNCHANGED status
    /\ UNCHANGED <<argc, argv3, file, use_openmp, temp, written, team, next_iter,
                   thr, num_threads, out>>

\* the end of a timed section, lines 40-46 and 55-56
AfterRun ==
    /\ hist' = Append(hist, IF use_openmp = 0 THEN "serial" ELSE "parallel")
    /\ IF use_openmp = 0
         THEN pc' = "read" /\ use_openmp' = 1
         ELSE pc' = "count" /\ UNCHANGED use_openmp

\* main, lines 35-39 and 50-54, with a filter_type that selects no filter
NoFilter ==
    /\ pc = "filter"
    /\ filter_type # 1 /\ filter_type # 2
    /\ AfterRun
    /\ UNCHANGED <<argc, argv3, file, status, img, leaked, filter_type, temp,
                   written, team, next_iter, thr, num_threads, out>>

\* what malloc's block may hold: it is not initialised. Two kinds of content
\* stand for it: fresh zero pages, and stale bytes that differ from cell to cell
GarbageKinds == {"zero", "stale"}
Garbage(kind, i) == IF kind = "zero" THEN 0 ELSE (37 * i + 11) % 256

\* team sizes the runtime may choose for a parallel region (omp_set_dynamic(1));
\* an if() clause that is false makes it a team of one
TeamSizes(par) == IF par = 1 THEN Threads ELSE {1}

\* entry of applyBlur / applyEdgeDetection up to the fork of the parallel-for:
\* lines 117-120 and 149-155
Enter ==
    /\ \E g \in GarbageKinds :
          temp' = [i \in Cells(img.width, img.height) |-> Garbage(g, i)]
    /\ written' = [i \in Cells(img.width, img.height) |-> 0]
    /\ \E n \in TeamSizes(use_openmp) :
          /\ team' = n
          /\ thr' = [t \in Threads |-> [st |-> IF t <= n THEN "ready" ELSE "out", k |-> 0]]
    /\ next_iter' = 0
    /\ pc' = "loop"
    /\ UNCHANGED <<argc, argv3, file, status, img, leaked, filter_type, use_openmp,
                   num_threads, out, hist>>

ApplyBlur == pc = "filter" /\ filter_type = 1 /\ Enter

ApplyEdgeDetection == pc = "filter" /\ filter_type = 2 /\ Enter

\* schedule(dynamic): a thread of the team takes the next iteration, or goes
\* to the barrier at the end of the loop when none is left
Grab(t) ==
    /\ pc = "loop"
    /\ thr[t].st = "ready"
    /\ IF next_iter < Iterations(img.width, img.height)
         THEN /\ thr' = [thr EXCEPT ![t] = [st |-> "work", k |-> next_iter]]
              /\ next_iter' = next_iter + 1
         ELSE /\ thr' = [thr EXCEPT ![t] = [st |-> "barrier", k |-> 0]]
              /\ UNCHANGED next_iter
    /\ UNCHANGED <<argc, argv3, file, pc, status, img, leaked, filter_type, use_openmp,
                   temp, written, team, num_threads, out, hist>>

\* the pixel of the iteration thread t holds
PixelX(t) == IterX(img.width, thr[t].k)
PixelY(t) == IterY(img.width, thr[t].k)

\* the end of one iteration of the loop body: the stores of r, g, b into the
\* three cells of temp that belong to the pixel
Body(t, r, g, b) ==
    LET idx == 3 * (PixelY(t) * img.width + PixelX(t))
    IN  /\ temp' = [temp EXCEPT ![idx] = r, ![idx + 1] = g, ![idx + 2] = b]
        /\ written' = [written EXCEPT ![idx] = @ + 1, ![idx + 1] = @ + 1, ![idx + 2] = @ + 1]
        /\ thr' = [thr EXCEPT ![t] = [st |-> "ready", k |-> 0]]
        /\ UNCHANGED <<argc, argv3, file, pc, status, img, leaked, filter_type,
                       use_openmp, team, next_iter, num_threads, out, hist>>

\* applyBlur, lines 123-139
BlurPixel(t) ==
    /\ pc = "loop" /\ filter_type = 1 /\ thr[t].st = "work"
    /\ \E r \in {BlurStore(img.data, img.width, PixelX(t), PixelY(t), 0)},
          g \in {BlurStore(img.data, img.width, PixelX(t), PixelY(t), 1)},
          b \in {BlurStore(img.data, img.width, PixelX(t), PixelY(t), 2)} :
          Body(t, r, g, b)

\* applyEdgeDetection, lines 158-180
EdgePixel(t) ==
    /\ pc = "loop" /\ filter_type = 2 /\ thr[t].st = "work"
    /\ \E r \in {EdgeStore(img.data, img.width, PixelX(t), PixelY(t), 0)},
          g \in {EdgeStore(img.data, img.width, PixelX(t), PixelY(t), 1)},
          b \in {EdgeStore(img.data, img.width, PixelX(t), PixelY(t), 2)} :
          Body(t, r, g, b)

\* a join that waits for every thread of the pool, in the team or not
CopyBackWaitsForPool ==
    /\ pc = "loop"
    /\ \A t \in Threads : thr[t].st = "barrier"
    /\ img' = [img EXCEPT !.data = temp]
    /\ temp' = NoData
    /\ thr' = [t \in Threads |-> [st |-> "out", k |-> 0]]
    /\ AfterRun
    /\ UNCHANGED <<argc, argv3, file, status, leaked, filter_type, written, team,
                   next_iter, num_threads, out>>

\* the implicit barrier at the end of the parallel-for, then memcpy and free:
\* lines 141-145 and 182-186
CopyBack ==
    /\ pc = "loop"
    /\ \A t \in Threads : thr[t].st \in {"barrier", "out"}
    /\ img' = [img EXCEPT !.data = temp]
    /\ temp' = NoData
    /\ thr' = [t \in Threads |-> [st |-> "out", k |-> 0]]
    /\ AfterRun
    /\ UNCHANGED <<argc, argv3, file, status, leaked, filter_type, written, team,
                   next_iter, num_threads, out>>

\* main, lines 59-63: a second parallel region asks for its own team size
CountThreads ==
    /\ pc = "count"
    /\ \E n \in TeamSizes(1) : num_threads' = n
    /\ pc' = "write"
    /\ UNCHANGED <<argc, argv3, file, status, img, leaked, filter_type, use_openmp,
                   temp, written, team, next_iter, thr, out, hist>>

\* writePPM, lines 103-113, then main lines 70-71; fopen may fail
WritePPM ==
    /\ pc = "write"
    /\ \E opened \in BOOLEAN :
          IF ~opened
            THEN Exit(1) /\ UNCHANGED <<out, hist>>
            ELSE /\ out' = [written |-> TRUE, format |-> P6, w |-> img.width,
                            h |-> img.height, maxColor |-> MAX_COLOR, pix |-> img.data]
                 /\ hist' = Append(hist, "write")
                 /\ Exit(0)
    /\ UNCHANGED <<argc, argv3, file, img, leaked, filter_type, use_openmp, temp,
                   written, team, next_iter, thr, num_threads>>

Driver ==
    \/ Main
    \/ ReadPPM
    \/ NoFilter
    \/ ApplyBlur
    \/ ApplyEdgeDetection
    \/ CopyBack
    \/ CountThreads
    \/ WritePPM

Worker(t) == Grab(t) \/ BlurPixel(t) \/ EdgePixel(t)

Next == Driver \/ \E t \in Threads : Worker(t)

Spec == Init /\ [][Next]_vars

\* the driver's thread and every worker thread keep being scheduled: no step
\* of either stays possible forever without being taken
FairDriver ==
    /\ WF_vars(Main) /\ WF_vars(ReadPPM) /\ WF_vars(NoFilter)
    /\ WF_vars(ApplyBlur) /\ WF_vars(ApplyEdgeDetection)
    /\ WF_vars(CopyBack) /\ WF_vars(CountThreads) /\ WF_vars(WritePPM)

FairWorker(t) == WF_vars(Grab(t)) /\ WF_vars(BlurPixel(t)) /\ WF_vars(EdgePixel(t))

FairSpec == StripeInit /\ [][Next]_vars /\ FairDriver /\ \A t \in Threads : FairWorker(t)

\* ------------------------------------------------- claim vocabulary
\* img.data holds the result of a filter call that ran
Filtered ==
    /\ filter_type \in {1, 2}
    /\ Len(hist) > 0
    /\ hist[Len(hist)] # "decode"

\* the (x, y) with 1 <= x <= w-2 and 1 <= y <= h-2
InteriorPixels(w, h) == (1..(w - 2)) \X (1..(h - 2))

BorderCells(w, h) ==
    {i \in Cells(w, h) :
        LET p == i \div 3
        IN  p % w = 0 \/ p % w = w - 1 \/ p \div w = 0 \/ p \div w = h - 1}

\* sample of channel c at (x, y) of the decoded input
In(x, y, c) == file.pix[Idx(file.w, x, y, c)]

\* C1: for w >= 3 and h >= 3, after either filter has returned, every border
\* sample of the image equals the sample at the same index before the call.
C1_BorderPreserved ==
    (Filtered /\ img.width >= 3 /\ img.height >= 3)
        => \A i \in BorderCells(img.width, img.height) : img.data[i] = file.pix[i]

\* C2: the sequential and the parallel run, started from the same decoded
\* buffer, end with byte-identical image buffers.
C2_SequentialEqualsParallel ==
    (Len(hist) >= 4 /\ hist[4] = "parallel") => img.data = leaked

\* C3: for w < 3 or h < 3, either filter returns with every sample of the
\* image equal to its value before the call.
C3_SmallImageUnchanged ==
    (Filtered /\ (img.width < 3 \/ img.height < 3)) => img.data = file.pix

\* the horizontal and vertical Sobel responses of channel c of the decoded
\* input at (x, y), written out term by term
SobelX(x, y, c) ==
    (In(x + 1, y - 1, c) + 2 * In(x + 1, y, c) + In(x + 1, y + 1, c))
      - (In(x - 1, y - 1, c) + 2 * In(x - 1, y, c) + In(x - 1, y + 1, c))

SobelY(x, y, c) ==
    (In(x - 1, y + 1, c) + 2 * In(x, y + 1, c) + In(x + 1, y + 1, c))
      - (In(x - 1, y - 1, c) + 2 * In(x, y - 1, c) + In(x + 1, y - 1, c))

SobelSquares(x, y, c) == SobelX(x, y, c) * SobelX(x, y, c) + SobelY(x, y, c) * SobelY(x, y, c)

\* v is min(255, floor(sqrt(m)))
IsClampedRoot(v, m) ==
    /\ v \in 0..255
    /\ m >= 255 * 255 => v = 255
    /\ m < 255 * 255 => (v * v <= m /\ m < (v + 1) * (v + 1))

\* the sum of the 9 samples of channel c of the decoded input around (x, y)
BoxSum(x, y, c) ==
    In(x - 1, y - 1, c) + In(x, y - 1, c) + In(x + 1, y - 1, c)
      + In(x - 1, y, c) + In(x, y, c) + In(x + 1, y, c)
      + In(x - 1, y + 1, c) + In(x, y + 1, c) + In(x + 1, y + 1, c)

\* the cells of temp the loop has stored into so far, while it runs
StoredCells == IF pc = "loop" THEN {i \in DOMAIN written : written[i] > 0} ELSE {}

CellX(i) == (i \div 3) % img.width
CellY(i) == (i \div 3) \div img.width

\* C4: every interior sample applyEdgeDetection writes is
\* min(255, floor(sqrt(Gx^2 + Gy^2))) of the input: at most 255, clamped and
\* not reduced modulo 256; Gx, Gy and Gx^2 + Gy^2 stay within a 32-bit int.
C4_EdgeClamped ==
    /\ (Filtered /\ filter_type = 2) =>
          \A p \in InteriorPixels(img.width, img.height) : \A c \in 0..2 :
              /\ IsClampedRoot(img.data[Idx(img.width, p[1], p[2], c)],
                               SobelSquares(p[1], p[2], c))
              /\ SobelX(p[1], p[2], c) \in (-4 * MAX_COLOR)..(4 * MAX_COLOR)
              /\ SobelY(p[1], p[2], c) \in (-4 * MAX_COLOR)..(4 * MAX_COLOR)
              /\ SobelSquares(p[1], p[2], c) <= INT_MAX
    /\ filter_type = 2 =>
          \A i \in StoredCells :
              IsClampedRoot(temp[i], SobelSquares(CellX(i), CellY(i), i % 3))

\* C4's case: an interior sample whose gradient magnitude is 256 or more was
\* stored as 255 by a finished edge-detection run.
C4_Witness ==
    /\ Filtered /\ filter_type = 2
    /\ \E p \in InteriorPixels(img.width, img.height) : \E c \in 0..2 :
          /\ SobelSquares(p[1], p[2], c) >= 256 * 256
          /\ img.data[Idx(img.width, p[1], p[2], c)] = 255

\* C5: applyBlur sets each channel of every interior pixel to the truncated
\* quotient by 9 of the sum of the 9 samples the image held before the call;
\* the result is in 0..255.
C5_BlurIsTruncatedMean ==
    /\ (Filtered /\ filter_type = 1) =>
          \A p \in InteriorPixels(img.width, img.height) : \A c \in 0..2 :
              LET v == img.data[Idx(img.width, p[1], p[2], c)]
                  sum == BoxSum(p[1], p[2], c)
              IN  v \in 0..255 /\ 9 * v <= sum /\ sum < 9 * (v + 1)
    /\ filter_type = 1 =>
          \A i \in StoredCells :
              LET sum == BoxSum(CellX(i), CellY(i), i % 3)
              IN  temp[i] \in 0..255 /\ 9 * temp[i] <= sum /\ sum < 9 * (temp[i] + 1)

\* C5's case: a finished parallel blur of an image with an interior pixel
\* whose sum leaves a remainder of 5 or more, so rounding would differ.
C5_Witness ==
    /\ Filtered /\ filter_type = 1 /\ hist[Len(hist)] = "parallel"
    /\ \E p \in InteriorPixels(img.width, img.height) : \E c \in 0..2 :
          /\ BoxSum(p[1], p[2], c) % 9 >= 5
          /\ 9 * img.data[Idx(img.width, p[1], p[2], c)] <= BoxSum(p[1], p[2], c)

\* every pixel of the decoded input has the colour of pixel (0, 0)
OneColour == \A i \in DOMAIN file.pix : file.pix[i] = file.pix[i % 3]

\* C9: on an image of one colour with w >= 3 and h >= 3, applyEdgeDetection
\* writes 0 to all three channels of every interior pixel.
C9_OneColourHasNoEdges ==
    (Filtered /\ filter_type = 2 /\ OneColour) =>
        \A p \in InteriorPixels(img.width, img.height) : \A c \in 0..2 :
            img.data[Idx(img.width, p[1], p[2], c)] = 0

\* C9's case: edge detection has finished on a one-colour image, not black,
\* with at least two interior pixels, and they are all 0.
C9_Witness ==
    /\ Filtered /\ filter_type = 2 /\ OneColour
    /\ img.width >= 4 /\ img.height >= 3
    /\ file.pix[0] = 10 /\ file.pix[1] = 200
    /\ \A p \in InteriorPixels(img.width, img.height) : \A c \in 0..2 :
          img.data[Idx(img.width, p[1], p[2], c)] = 0

\* a fault the program recognises: wrong argument count, input that cannot be
\* opened, header magic other than P6, max sample value other than 255
Fault ==
    \/ argc # 4
    \/ ~file.exists
    \/ file.format # P6
    \/ file.maxColor # MAX_COLOR

AllStages == <<"decode", "serial", "decode", "parallel">>

\* C6: a run that hits a recognised fault ends with exit status 1 and never
\* opens or writes the output file; writePPM is reached only after both
\* decodes and both filter runs.
C6_FaultExitsWithOne ==
    /\ Fault => out = NoFile
    /\ (Fault /\ pc = "exited") => status = 1
    /\ pc = "write" => hist = AllStages

\* C7: the thread count the driver prints equals the number of threads of the
\* team that executed the parallel filter run.
C7_PrintedCountIsFilterTeam ==
    (pc = "write" /\ filter_type \in {1, 2}) => num_threads = team

\* every thread of the team has reached the barrier that ends the loop
AtJoin == pc = "loop" /\ \A t \in Threads : thr[t].st \in {"barrier", "out"}

\* C8: in a parallel filter run every cell of the scratch buffer is stored
\* into exactly once and no cell is stored into by two pixel tasks.
C8_EveryCellStoredOnce ==
    /\ \A i \in DOMAIN written : written[i] <= 1
    /\ (use_openmp = 1 /\ AtJoin) => \A i \in DOMAIN written : written[i] = 1

ValidInput == argc = 4 /\ file.exists /\ HeaderOk(file) /\ file.w >= 1 /\ file.h >= 1

\* the latest filter call has joined with every interior pixel stored once
Joined ==
    /\ pc \in {"read", "count"}
    /\ DOMAIN written = DOMAIN img.data
    /\ \A p \in InteriorPixels(img.width, img.height) : \A c \in 0..2 :
          written[Idx(img.width, p[1], p[2], c)] = 1

\* C10: under fair scheduling a run on a decodable input completes: every
\* filter call joins after each interior pixel has been processed, and the
\* driver reaches writing the output after the sequential run, the second
\* decode and the parallel run, in that order.
C10_RunCompletes ==
    /\ (pc = "main" /\ ValidInput) ~> (pc = "write" /\ hist = AllStages)
    /\ (pc = "loop") ~> Joined

\* C10's case: the driver is about to write the output of a filter whose
\* parallel run had a team of two or more over two or more interior pixels.
C10_Witness ==
    /\ pc = "write" /\ hist = AllStages
    /\ filter_type \in {1, 2}
    /\ team >= 2
    /\ Iterations(img.width, img.height) >= 2

====
